---- MODULE Spec2Model ----
(***************************************************************************)
(* The multilingual text pipeline of backend/services/translation_service: *)
(* the recursive separator-aware chunker (_recursive_split,                *)
(* _smart_chunk_text), the cached chunk translator with retry and graceful *)
(* fallback (_translate_chunk) and the document translator                 *)
(* (translate_to_english).                                                 *)
(*                                                                         *)
(* A text is a sequence of one-character strings.  The chunk size is the   *)
(* chunk_size argument of _smart_chunk_text (class attribute CHUNK_SIZE,   *)
(* 200 in the source); the model draws it from ChunkSizes, scaled down so  *)
(* that texts of a few characters have fragments on both sides of it.      *)
(***************************************************************************)
EXTENDS Integers, Sequences, FiniteSets, TLC

\* ------------------------------------------------------------------ bounds
MaxLen == 4          \* longest text given to the chunker
MaxChunkSize == 3    \* largest chunk_size drawn
MaxCalls == 3        \* client calls in one run of the translation service
MaxChars == 3        \* max_chars of _translate_deep_translator, scaled

\* ------------------------------------------------------- program constants
MAX_RETRIES == 2
RETRY_DELAY == 1

\* --------------------------------------------------------------- alphabet
Whitespace == {" ", "\n", "\t"}
Alphabet == {"a", "b", ".", "!", "?"} \cup Whitespace

ChunkSizes == 2..MaxChunkSize

RECURSIVE SeqsUpTo(_, _)
SeqsUpTo(S, n) ==
    IF n = 0 THEN {<<>>}
    ELSE LET shorter == SeqsUpTo(S, n - 1)
         IN  shorter \cup {Append(s, c) : s \in {t \in shorter : Len(t) = n - 1}, c \in S}

Texts == SeqsUpTo(Alphabet, MaxLen)

\* ------------------------------------------------------ string primitives
\* mutant: only the empty text counts as blank
IsBlankEmptyOnly(s) == s = <<>>

\* str.strip() == '' : every character is whitespace (the empty text too)
IsBlank(s) == \A i \in 1..Len(s) : s[i] \in Whitespace

\* sep occurs in text at position i
OccursAt(text, sep, i) ==
    /\ i >= 1
    /\ i + Len(sep) - 1 <= Len(text)
    /\ \A j \in 1..Len(sep) : text[i + j - 1] = sep[j]

\* Python's `sep in text`
Contains(text, sep) == \E i \in 1..(Len(text) + 1) : OccursAt(text, sep, i)

\* Python's text.split(sep) for a non-empty sep: leftmost occurrences, not overlapping
RECURSIVE PySplit(_, _)
PySplit(text, sep) ==
    IF ~Contains(text, sep) THEN <<text>>
    ELSE LET i == CHOOSE k \in 1..Len(text) :
                     /\ OccursAt(text, sep, k)
                     /\ \A m \in 1..(k - 1) : ~OccursAt(text, sep, m)
         IN  <<SubSeq(text, 1, i - 1)>>
                 \o PySplit(SubSeq(text, i + Len(sep), Len(text)), sep)

\* Python's list(text): one fragment per character
PyList(text) == [i \in 1..Len(text) |-> <<text[i]>>]

\* Python's sep.join(parts)
RECURSIVE PyJoin(_, _)
PyJoin(sep, parts) ==
    IF parts = <<>> THEN <<>>
    ELSE IF Len(parts) = 1 THEN parts[1]
    ELSE parts[1] \o sep \o PyJoin(sep, Tail(parts))

\* mutant: the blank fragments are kept
DropBlankNone(parts) == parts

\* the fragments that survive `if s.strip()`
RECURSIVE DropBlank(_)
DropBlank(parts) ==
    IF parts = <<>> THEN <<>>
    ELSE IF IsBlank(Head(parts)) THEN DropBlank(Tail(parts))
    ELSE <<Head(parts)>> \o DropBlank(Tail(parts))

\* ----------------------------------------------------------------- chunker
Separators == << <<"\n", "\n">>, <<"\n">>, <<".", " ">>, <<"!", " ">>, <<"?", " ">>, <<" ">>, <<>> >>

\* mutant: the for-loop does not stop at the first separator that occurs
PickSeparatorLast(text, separators) == Len(separators)

\* the separator the for-loop of _recursive_split settles on, as its index in
\* `separators`: the first that is "" or occurs in the text, else the last one
PickSeparator(text, separators) ==
    LET hits == {i \in 1..Len(separators) :
                     separators[i] = <<>> \/ Contains(text, separators[i])}
    IN  IF hits = {} THEN Len(separators)
        ELSE CHOOSE i \in hits : \A j \in hits : i <= j

\* separators[separators.index(separator) + 1:]
NextSeparators(separators, separator) ==
    LET idx == CHOOSE i \in 1..Len(separators) :
                   /\ separators[i] = separator
                   /\ \A j \in 1..(i - 1) : separators[j] # separator
    IN  SubSeq(separators, idx + 1, Len(separators))

\* the merge buffer, joined and yielded when it is not empty
Flush(merged_text, separator) ==
    IF merged_text # <<>> /\ Len(PyJoin(separator, merged_text)) > 0
    THEN <<PyJoin(separator, merged_text)>>
    ELSE <<>>

\* mutant: the fragment is measured with one more character
IsSmallOffByOne(s, chunk_size) == Len(s) + 1 < chunk_size

\* a fragment goes to the merge buffer when it is strictly under chunk_size
IsSmall(s, chunk_size) == Len(s) < chunk_size

RECURSIVE _recursive_split(_, _, _)
RECURSIVE MergeSplits(_, _, _, _, _, _)

\* the loop over good_splits from fragment k on; merged_text is the merge buffer
MergeSplits(good_splits, k, merged_text, separator, separators, chunk_size) ==
    IF k > Len(good_splits) THEN Flush(merged_text, separator)
    ELSE LET s == good_splits[k]
         IN  IF IsSmall(s, chunk_size)
             THEN MergeSplits(good_splits, k + 1, Append(merged_text, s),
                              separator, separators, chunk_size)
             ELSE Flush(merged_text, separator)
                  \o (IF separator # <<>>
                      THEN LET next_separators == NextSeparators(separators, separator)
                           IN  IF next_separators # <<>>
                               THEN _recursive_split(s, next_separators, chunk_size)
                               ELSE <<s>>
                      ELSE <<s>>)
                  \o MergeSplits(good_splits, k + 1, <<>>,
                                 separator, separators, chunk_size)

_recursive_split(text, separators, chunk_size) ==
    LET separator == separators[PickSeparator(text, separators)]
        splits == IF separator # <<>> THEN PySplit(text, separator) ELSE PyList(text)
        good_splits == DropBlank(splits)
    IN  MergeSplits(good_splits, 1, <<>>, separator, separators, chunk_size)

_smart_chunk_text(text, chunk_size) ==
    IF text = <<>> \/ IsBlank(text) THEN <<>>
    ELSE _recursive_split(text, Separators, chunk_size)

\* the invocations of _recursive_split that one call leads to: the text and
\* the separators each was given, the separator it settled on, its depth and
\* the separator of the invocation that made it
RECURSIVE SplitCalls(_, _, _, _, _)
SplitCalls(text, separators, chunk_size, depth, via) ==
    LET separator == separators[PickSeparator(text, separators)]
        splits == IF separator # <<>> THEN PySplit(text, separator) ELSE PyList(text)
        good_splits == DropBlank(splits)
        large == {k \in 1..Len(good_splits) : ~IsSmall(good_splits[k], chunk_size)}
        next_separators == NextSeparators(separators, separator)
    IN  {[text |-> text, separators |-> separators, separator |-> separator,
          depth |-> depth, via |-> via]}
            \cup UNION {IF separator # <<>> /\ next_separators # <<>>
                        THEN SplitCalls(good_splits[k], next_separators, chunk_size,
                                        depth + 1, separator)
                        ELSE {} : k \in large}

\* ------------------------------------------------- translation: the data
None == "None"

Result(success, translated_text, error) ==
    [success |-> success, translated_text |-> translated_text, error |-> error]

\* mutant: the language code is compared as given
LowerIdentity(l) == l

\* source_language.lower()
Langs == {"fr", "FR", "en", "EN"}
Lower(l) == CASE l = "FR" -> "fr" [] l = "EN" -> "en" [] OTHER -> l

\* hashlib.md5(f"{text}|{source_lang}".encode()).hexdigest(): the digest stands
\* for the formatted string it is taken of
CacheKey(t, source_lang) == Append(Append(t, "|"), source_lang)

\* what one requests.get can come back with:
\*   "ok"          HTTP 200, responseStatus 200, a non-empty translatedText
\*   "429"         HTTP 429
\*   "connection"  requests raises Timeout or ConnectionError
\*   "http"        another HTTP status
\*   "status"      HTTP 200 with a responseStatus other than 200
\*   "empty"       HTTP 200, responseStatus 200, translatedText ''
\*   "raise"       HTTP 200 with a body response.json() cannot read: the
\*                 exception reaches the outer `except Exception`
RemoteTexts == {<<"x">>, <<"y", " ", " ", "z">>, <<" ">>}
Replies ==
    {[kind |-> "ok", text |-> t] : t \in RemoteTexts}
        \cup {[kind |-> k, text |-> <<>>] :
                 k \in {"429", "connection", "http", "status", "empty", "raise"}}

\* the documents handed to the service
DocTexts ==
    { <<>>,
      <<" ", "\n">>,
      <<"a", "a", "a">>,
      <<"a", "a", "a", " ", "a", "a", "a">>,
      <<"a", "\n", "\n", "b">>,
      <<"a", "a", "a", "\n", "\n", "b", "b", "b">>,
      <<"a", ".", " ", "b", "b", "b">>,
      <<".", " ">> }

FallbackPrefix == "API unavailable, using original text: "

\* last_error for a reply that ends the retry loop without a translation
LastError(reply) ==
    CASE reply.kind = "429" -> "Translation service rate limited (too many requests)"
      [] reply.kind = "connection" -> "Connection failed: timed out"
      [] reply.kind = "http" -> "HTTP error: 500"
      [] reply.kind = "status" -> "Unknown error"
      [] reply.kind = "empty" -> "Translation returned empty result"

\* mutant: the fallback is reported as a hard failure
fallback_hard(t, last_error) == Result(FALSE, <<>>, FallbackPrefix \o last_error)

success_result(reply) == Result(TRUE, reply.text, None)

fallback_result(t, last_error) == Result(TRUE, t, FallbackPrefix \o last_error)

\* the outer `except Exception` of _translate_chunk
failure_result(e) == Result(FALSE, <<>>, "Translation failed: " \o e)

\* str.split(): the maximal runs of non-whitespace characters
RECURSIVE PySplitWs(_, _)
PySplitWs(s, word) ==
    IF s = <<>> THEN (IF word = <<>> THEN <<>> ELSE <<word>>)
    ELSE IF Head(s) \in Whitespace
         THEN (IF word = <<>> THEN <<>> ELSE <<word>>) \o PySplitWs(Tail(s), <<>>)
         ELSE PySplitWs(Tail(s), Append(word, Head(s)))

\* mutant: the translated chunks are joined and not cleaned up
CombineChunksRaw(translated_chunks) == PyJoin(<<" ">>, translated_chunks)

\* ' '.join(translated_chunks), then ' '.join(translated_text.split())
CombineChunks(translated_chunks) ==
    PyJoin(<<" ">>, PySplitWs(PyJoin(<<" ">>, translated_chunks), <<>>))

VARIABLES
    text,               \* the text argument of the call
    chunk_size,         \* TranslationService.CHUNK_SIZE
    chunks,             \* the chunks of text
    pc,                 \* where the running call is
    lang,               \* the source_language argument of the call
    cache,              \* TranslationService._translation_cache
    op,                 \* the method the client called
    idx,                \* i of the chunk loop of translate_to_english
    translated_chunks,  \* translated_chunks of translate_to_english
    ctext,              \* the text argument of the running _translate_chunk
    attempt,            \* attempt of the retry loop
    creq,               \* requests.get calls of the running _translate_chunk
    replies,            \* what they came back with
    cres,               \* the result _translate_chunk returns
    cresults,           \* the chunk results translate_to_english has got
    reqlog,             \* the chunk index of every request of the running call
    sleeps,             \* the time.sleep arguments of the running call
    ret,                \* what the call returned to the client
    hist,               \* the last result of _translate_chunk, by cache key
    ncalls,             \* calls the client has made
    cache0,             \* the cache as the running call found it
    race,               \* two _translate_chunk invocations running at once
    pipe,               \* a run of MultilingualOCRService.process_*_multilingual
    det,                \* a call of LanguageDetectionService.detect_language
    pg,                 \* a call of TranslationService.translate_pages
    inst                \* the MultilingualOCRService instance the routes share

vars == <<text, chunk_size, chunks, pc, lang, cache, op, idx, translated_chunks,
          ctext, attempt, creq, replies, cres, cresults, reqlog, sleeps, ret,
          hist, ncalls, cache0, race, pipe, det, pg, inst>>

\* what the translation service's own calls leave alone
others == <<race, pipe, det, pg, inst>>

svc == <<lang, cache, op, idx, translated_chunks, ctext, attempt, creq, replies,
         cres, cresults, reqlog, sleeps, ret, hist, ncalls, cache0>>

NoResult == Result(FALSE, <<>>, "no result")

Empty == [k \in {} |-> NoResult]

Put(f, k, v) == [x \in DOMAIN f \cup {k} |-> IF x = k THEN v ELSE f[x]]

\* the components that are not running
RaceIdle == [on |-> FALSE]
PipeIdle == [on |-> FALSE]
DetIdle == [on |-> FALSE]
PgIdle == [on |-> FALSE]
InstIdle == [on |-> FALSE]

OthersIdle ==
    /\ race = RaceIdle /\ pipe = PipeIdle /\ det = DetIdle /\ pg = PgIdle
    /\ inst = InstIdle

\* ------------------------------------------------------- the chunker alone
InitChunk ==
    /\ text \in Texts
    /\ chunk_size \in ChunkSizes
    /\ chunks = <<>>
    /\ pc = "call"
    /\ lang = "fr" /\ cache = Empty /\ op = "chunker" /\ idx = 0
    /\ translated_chunks = <<>> /\ ctext = <<>> /\ attempt = 0 /\ creq = 0
    /\ replies = <<>> /\ cres = NoResult /\ cresults = <<>> /\ reqlog = <<>>
    /\ sleeps = <<>> /\ ret = NoResult /\ hist = Empty /\ ncalls = 0
    /\ cache0 = Empty /\ OthersIdle

SmartChunk ==
    /\ pc = "call"
    /\ chunks' = _smart_chunk_text(text, chunk_size)
    /\ pc' = "chunked"
    /\ UNCHANGED <<text, chunk_size>>
    /\ UNCHANGED svc
    /\ UNCHANGED others

NextChunk == SmartChunk

SpecChunk == InitChunk /\ [][NextChunk]_vars

\* -------------------------------------------------- the translation service
RECURSIVE Pow2(_)
Pow2(n) == IF n = 0 THEN 1 ELSE 2 * Pow2(n - 1)

\* wait_time = RETRY_DELAY * (2 ** attempt)
WaitTime(a) == RETRY_DELAY * Pow2(a)

\* mutants: the result is returned and not stored
StoreSuccessLost(c, k, r) == c

StoreFallbackLost(c, k, r) == c

\* mutant: a failed chunk does not stop the loop
ChunkFailedIgnored(result) == FALSE

\* mutant: the lookup never finds the key
CacheHitNever(c, k) == FALSE

\* `if cache_key in TranslationService._translation_cache`
CacheHit(c, k) == k \in DOMAIN c

\* TranslationService._translation_cache[cache_key] = success_result
StoreSuccess(c, k, r) == Put(c, k, r)

\* TranslationService._translation_cache[cache_key] = fallback_result
StoreFallback(c, k, r) == Put(c, k, r)

\* mutant: the failure is stored like the other results
StoreFailureCached(c, k, r) == Put(c, k, r)

\* the outer `except Exception` returns its result and stores nothing
StoreFailure(c, k, r) == c

\* mutant: another HTTP status is retried too
RetriedHttp(reply, a) ==
    reply.kind \in {"429", "connection", "http"} /\ a < MAX_RETRIES - 1

\* mutant: every reply without a translation is retried
RetriedAnyFailure(reply, a) == reply.kind # "ok" /\ a < MAX_RETRIES - 1

\* a 429 or a Timeout/ConnectionError is retried while attempts are left
Retried(reply, a) == reply.kind \in {"429", "connection"} /\ a < MAX_RETRIES - 1

\* `if not result['success']` in the chunk loop of translate_to_english
ChunkFailed(result) == ~result.success

Init ==
    /\ text \in DocTexts
    /\ lang \in Langs
    /\ chunk_size \in ChunkSizes
    /\ chunks = <<>>
    /\ pc = "idle"
    /\ cache = Empty /\ op = "none" /\ idx = 0
    /\ translated_chunks = <<>> /\ ctext = <<>> /\ attempt = 0 /\ creq = 0
    /\ replies = <<>> /\ cres = NoResult /\ cresults = <<>> /\ reqlog = <<>>
    /\ sleeps = <<>> /\ ret = NoResult /\ hist = Empty /\ ncalls = 0
    /\ cache0 = Empty /\ OthersIdle

\* the client calls TranslationService._translate_chunk(text, lang)
CallTranslateChunk ==
    /\ pc = "idle"
    /\ ncalls < MaxCalls
    /\ ncalls' = ncalls + 1
    /\ op' = "chunk"
    /\ ctext' = text
    /\ pc' = "tc_start"
    /\ chunks' = <<>> /\ idx' = 0 /\ translated_chunks' = <<>> /\ cresults' = <<>>
    /\ creq' = 0 /\ replies' = <<>> /\ reqlog' = <<>> /\ sleeps' = <<>>
    /\ attempt' = 0 /\ cres' = NoResult /\ ret' = NoResult
    /\ cache0' = cache
    /\ UNCHANGED <<text, chunk_size, lang, cache, hist>>
    /\ UNCHANGED others

\* the client calls TranslationService.translate_to_english(text, lang)
CallTranslateToEnglish ==
    /\ pc = "idle"
    /\ ncalls < MaxCalls
    /\ ncalls' = ncalls + 1
    /\ op' = "doc"
    /\ pc' = "te_start"
    /\ chunks' = <<>> /\ idx' = 0 /\ translated_chunks' = <<>> /\ cresults' = <<>>
    /\ creq' = 0 /\ replies' = <<>> /\ reqlog' = <<>> /\ sleeps' = <<>>
    /\ attempt' = 0 /\ cres' = NoResult /\ ret' = NoResult /\ ctext' = <<>>
    /\ cache0' = cache
    /\ UNCHANGED <<text, chunk_size, lang, cache, hist>>
    /\ UNCHANGED others

\* translate_to_english up to the chunk loop
TranslateToEnglishStart ==
    /\ pc = "te_start"
    /\ IF text = <<>> \/ IsBlank(text)
       THEN /\ ret' = Result(FALSE, <<>>, "Empty text provided")
            /\ pc' = "done"
            /\ UNCHANGED <<chunks, idx>>
       ELSE IF Lower(lang) = "en"
       THEN /\ ret' = Result(TRUE, text, None)
            /\ pc' = "done"
            /\ UNCHANGED <<chunks, idx>>
       ELSE /\ chunks' = _smart_chunk_text(text, chunk_size)
            /\ idx' = 1
            /\ pc' = "te_loop"
            /\ UNCHANGED ret
    /\ UNCHANGED <<text, chunk_size, lang, cache, op, translated_chunks, ctext,
                   attempt, creq, replies, cres, cresults, reqlog, sleeps, hist,
                   ncalls>>
    /\ UNCHANGED cache0
    /\ UNCHANGED others

\* the head of the chunk loop: the next chunk goes to _translate_chunk, or the
\* loop is over and the translated chunks are combined and returned
TranslateToEnglishLoop ==
    /\ pc = "te_loop"
    /\ IF idx <= Len(chunks)
       THEN /\ ctext' = chunks[idx]
            /\ creq' = 0
            /\ replies' = <<>>
            /\ attempt' = 0
            /\ pc' = "tc_start"
            /\ UNCHANGED ret
       ELSE /\ ret' = Result(TRUE, CombineChunks(translated_chunks), None)
            /\ pc' = "done"
            /\ UNCHANGED <<ctext, creq, replies, attempt>>
    /\ UNCHANGED <<text, chunk_size, chunks, lang, cache, op, idx,
                   translated_chunks, cres, cresults, reqlog, sleeps, hist, ncalls>>
    /\ UNCHANGED cache0
    /\ UNCHANGED others

\* _translate_chunk up to the retry loop: blank text, cache lookup
TranslateChunkStart ==
    /\ pc = "tc_start"
    /\ IF ctext = <<>> \/ IsBlank(ctext)
       THEN /\ cres' = Result(TRUE, <<>>, None)
            /\ pc' = "tc_done"
       ELSE IF CacheHit(cache, CacheKey(ctext, Lower(lang)))
       THEN /\ cres' = cache[CacheKey(ctext, Lower(lang))]
            /\ pc' = "tc_done"
       ELSE /\ pc' = "tc_request"
            /\ UNCHANGED cres
    /\ attempt' = 0
    /\ UNCHANGED <<text, chunk_size, chunks, lang, cache, op, idx,
                   translated_chunks, ctext, creq, replies, cresults, reqlog,
                   sleeps, ret, hist, ncalls>>
    /\ UNCHANGED cache0
    /\ UNCHANGED others

\* one pass of the retry loop: requests.get and what the reply leads to
TranslateChunkRequest ==
    /\ pc = "tc_request"
    /\ attempt < MAX_RETRIES
    /\ \E reply \in Replies :
         LET key == CacheKey(ctext, Lower(lang)) IN
         /\ creq' = creq + 1
         /\ replies' = Append(replies, reply)
         /\ reqlog' = Append(reqlog, idx)
         /\ IF Retried(reply, attempt)
            THEN /\ sleeps' = Append(sleeps, WaitTime(attempt))
                 /\ attempt' = attempt + 1
                 /\ UNCHANGED <<pc, cres, cache>>
            ELSE IF reply.kind = "ok"
            THEN /\ cache' = StoreSuccess(cache, key, success_result(reply))
                 /\ cres' = success_result(reply)
                 /\ pc' = "tc_done"
                 /\ UNCHANGED <<sleeps, attempt>>
            ELSE IF reply.kind = "raise"
            THEN /\ cache' = StoreFailure(cache, key, failure_result("Expecting value"))
                 /\ cres' = failure_result("Expecting value")
                 /\ pc' = "tc_done"
                 /\ UNCHANGED <<sleeps, attempt>>
            ELSE /\ cache' = StoreFallback(cache, key,
                                           fallback_result(ctext, LastError(reply)))
                 /\ cres' = fallback_result(ctext, LastError(reply))
                 /\ pc' = "tc_done"
                 /\ UNCHANGED <<sleeps, attempt>>
    /\ UNCHANGED <<text, chunk_size, chunks, lang, op, idx, translated_chunks,
                   ctext, cresults, ret, hist, ncalls>>
    /\ UNCHANGED cache0
    /\ UNCHANGED others

\* _translate_chunk returns: to the client, or into the chunk loop, which
\* returns the failed result as it is or keeps the translated text and goes on
TranslateChunkReturn ==
    /\ pc = "tc_done"
    /\ hist' = Put(hist, CacheKey(ctext, Lower(lang)), cres)
    /\ IF op = "chunk"
       THEN /\ ret' = cres
            /\ pc' = "done"
            /\ UNCHANGED <<cresults, translated_chunks, idx>>
       ELSE /\ cresults' = Append(cresults, cres)
            /\ IF ChunkFailed(cres)
               THEN /\ ret' = cres
                    /\ pc' = "done"
                    /\ UNCHANGED <<translated_chunks, idx>>
               ELSE /\ translated_chunks' = Append(translated_chunks, cres.translated_text)
                    /\ idx' = idx + 1
                    /\ pc' = "te_loop"
                    /\ UNCHANGED ret
    /\ UNCHANGED <<text, chunk_size, chunks, lang, cache, op, ctext, attempt,
                   creq, replies, cres, reqlog, sleeps, ncalls>>
    /\ UNCHANGED cache0
    /\ UNCHANGED others

\* the client has the result and may call again
Finish ==
    /\ pc = "done"
    /\ pc' = "idle"
    /\ UNCHANGED <<text, chunk_size, chunks, lang, cache, op, idx,
                   translated_chunks, ctext, attempt, creq, replies, cres,
                   cresults, reqlog, sleeps, ret, hist, ncalls>>
    /\ UNCHANGED cache0
    /\ UNCHANGED others

Next ==
    \/ CallTranslateChunk
    \/ CallTranslateToEnglish
    \/ TranslateToEnglishStart
    \/ TranslateToEnglishLoop
    \/ TranslateChunkStart
    \/ TranslateChunkRequest
    \/ TranslateChunkReturn
    \/ Finish

Spec == Init /\ [][Next]_vars

\* direct calls of _translate_chunk alone; requests.get has timeout=10 and
\* time.sleep returns, so a call that can take its next step takes it
NextRetry ==
    \/ CallTranslateChunk
    \/ TranslateChunkStart
    \/ TranslateChunkRequest
    \/ TranslateChunkReturn
    \/ Finish

SpecRetry ==
    /\ Init
    /\ [][NextRetry]_vars
    /\ WF_vars(TranslateChunkStart)
    /\ WF_vars(TranslateChunkRequest)
    /\ WF_vars(TranslateChunkReturn)

\* ------------------------------------ two _translate_chunk calls at once
\* the threads that run _translate_chunk(text, lang) at the same time; the
\* class attribute _translation_cache is shared and no lock guards it
Threads == {1, 2}

RaceStart ==
    [on |-> TRUE,
     pc |-> [t \in Threads |-> "tc_start"],
     attempt |-> [t \in Threads |-> 0],
     missed |-> [t \in Threads |-> FALSE],
     wrote |-> [t \in Threads |-> <<>>],
     res |-> [t \in Threads |-> NoResult]]

InitRace ==
    /\ text \in DocTexts
    /\ lang \in Langs
    /\ chunk_size = MaxChunkSize
    /\ chunks = <<>>
    /\ pc = "race"
    /\ cache = Empty /\ op = "chunk" /\ idx = 0
    /\ translated_chunks = <<>> /\ ctext = text /\ attempt = 0 /\ creq = 0
    /\ replies = <<>> /\ cres = NoResult /\ cresults = <<>> /\ reqlog = <<>>
    /\ sleeps = <<>> /\ ret = NoResult /\ hist = Empty /\ ncalls = 0
    /\ cache0 = Empty
    /\ race = RaceStart /\ pipe = PipeIdle /\ det = DetIdle /\ pg = PgIdle
    /\ inst = InstIdle

\* thread t runs _translate_chunk up to the retry loop: blank text, cache lookup
RaceLookup(t) ==
    /\ race.on
    /\ race.pc[t] = "tc_start"
    /\ LET key == CacheKey(ctext, Lower(lang)) IN
       IF ctext = <<>> \/ IsBlank(ctext)
       THEN race' = [race EXCEPT !.pc[t] = "tc_done",
                                 !.res[t] = Result(TRUE, <<>>, None)]
       ELSE IF CacheHit(cache, key)
       THEN race' = [race EXCEPT !.pc[t] = "tc_done", !.res[t] = cache[key]]
       ELSE race' = [race EXCEPT !.pc[t] = "tc_request", !.missed[t] = TRUE]
    /\ UNCHANGED <<text, chunk_size, chunks, pc>>
    /\ UNCHANGED svc
    /\ UNCHANGED <<pipe, det, pg, inst>>

\* thread t runs one pass of the retry loop
RaceRequest(t) ==
    /\ race.on
    /\ race.pc[t] = "tc_request"
    /\ race.attempt[t] < MAX_RETRIES
    /\ \E reply \in Replies :
         LET key == CacheKey(ctext, Lower(lang)) IN
         IF Retried(reply, race.attempt[t])
         THEN /\ race' = [race EXCEPT !.attempt[t] = @ + 1]
              /\ UNCHANGED cache
         ELSE IF reply.kind = "ok"
         THEN /\ cache' = StoreSuccess(cache, key, success_result(reply))
              /\ race' = [race EXCEPT !.pc[t] = "tc_done",
                                      !.res[t] = success_result(reply),
                                      !.wrote[t] = Append(@, success_result(reply))]
         ELSE IF reply.kind = "raise"
         THEN /\ race' = [race EXCEPT !.pc[t] = "tc_done",
                                      !.res[t] = failure_result("Expecting value")]
              /\ UNCHANGED cache
         ELSE /\ cache' = StoreFallback(cache, key,
                                        fallback_result(ctext, LastError(reply)))
              /\ race' = [race EXCEPT
                              !.pc[t] = "tc_done",
                              !.res[t] = fallback_result(ctext, LastError(reply)),
                              !.wrote[t] = Append(@, fallback_result(ctext,
                                                                     LastError(reply)))]
    /\ UNCHANGED <<text, chunk_size, chunks, pc, lang, op, idx, translated_chunks,
                   ctext, attempt, creq, replies, cres, cresults, reqlog, sleeps,
                   ret, hist, ncalls, cache0>>
    /\ UNCHANGED <<pipe, det, pg, inst>>

NextRace == \E t \in Threads : RaceLookup(t) \/ RaceRequest(t)

SpecRace == InitRace /\ [][NextRace]_vars

\* ------------------------------------------- the multilingual OCR pipeline
\* MultilingualOCRService.LANGUAGE_CODES.get(code, code)
LANGUAGE_CODES(code) ==
    CASE code = "eng" -> "English"
      [] code = "fra" -> "French"
      [] code = "deu" -> "German"
      [] OTHER -> code

\* lang_mapping.get(detected, 'eng') of _detect_language_from_text
lang_mapping(detected) ==
    CASE detected = "en" -> "eng"
      [] detected = "fr" -> "fra"
      [] detected = "de" -> "deu"
      [] OTHER -> "eng"

\* test_langs of _detect_language_from_image (the first three of the ten)
test_langs == <<"eng", "fra", "deu">>

\* _calculate_language_confidence, in hundredths: min(word_count / 100, 1.0)
LanguageConfidence(word_count) == IF word_count < 100 THEN word_count ELSE 100

\* what pytesseract.image_to_string gives for one language of test_langs:
\* -1 when it raises, else the number of words of the text it read
ImageReads == [1..Len(test_langs) -> {-1, 0, 1, 2}]

\* the loop of _detect_language_from_image over test_langs
RECURSIVE BestLang(_, _, _, _)
BestLang(reads, i, best_lang, best_confidence) ==
    IF i > Len(test_langs) THEN best_lang
    ELSE IF reads[i] > 0 /\ LanguageConfidence(reads[i]) > best_confidence
         THEN BestLang(reads, i + 1, test_langs[i], LanguageConfidence(reads[i]))
         ELSE BestLang(reads, i + 1, best_lang, best_confidence)

\* what langdetect.detect (or TextBlob.detect_language) comes back with
DetectReplies ==
    {[kind |-> "ok", code |-> c] : c \in {"en", "fr", "xx"}}
        \cup {[kind |-> "raise", code |-> "None"]}

\* the texts the OCR engine reads from a document
OcrTexts ==
    { <<>>,
      <<" ">>,
      <<"a", "b">>,
      <<"a", "\n", "b">>,
      <<"\n", "a", "b">>,
      <<"a", "b", "\n", "c", "d">> }

\* what a translation backend comes back with for one text:
\*   "ok"     a translation
\*   "echo"   the text it was given
\*   "empty"  the empty text
\*   "raise"  an exception (no network, quota, timeout)
TranslatorReplies ==
    {[kind |-> "ok", text |-> <<"X">>]}
        \cup {[kind |-> k, text |-> <<>>] : k \in {"echo", "empty", "raise"}}

ReplyText(reply, given) == IF reply.kind = "echo" THEN given ELSE reply.text

\* str.strip()
RECURSIVE PyLStrip(_)
PyLStrip(s) ==
    IF s # <<>> /\ Head(s) \in Whitespace THEN PyLStrip(Tail(s)) ELSE s

RECURSIVE PyRStrip(_)
PyRStrip(s) ==
    IF s # <<>> /\ s[Len(s)] \in Whitespace
    THEN PyRStrip(SubSeq(s, 1, Len(s) - 1)) ELSE s

PyStrip(s) == PyRStrip(PyLStrip(s))

\* the chunking loop of _translate_deep_translator over text.split('\n'),
\* the last `if current_chunk` included
RECURSIVE DeepChunks(_, _, _)
DeepChunks(lines, current_chunk, max_chars) ==
    IF lines = <<>>
    THEN (IF current_chunk # <<>> THEN <<current_chunk>> ELSE <<>>)
    ELSE LET line == Head(lines) IN
         IF Len(current_chunk) + Len(line) + 1 > max_chars
         THEN (IF current_chunk # <<>> THEN <<current_chunk>> ELSE <<>>)
                  \o DeepChunks(Tail(lines), line, max_chars)
         ELSE DeepChunks(Tail(lines),
                         IF current_chunk # <<>>
                         THEN current_chunk \o <<"\n">> \o line
                         ELSE line,
                         max_chars)

\* the backend _translate_to_english picks
Backend(p) ==
    IF p.translation_service = "google" /\ p.GOOGLE_TRANSLATE_AVAILABLE
    THEN "google"
    ELSE IF p.DEEP_TRANSLATOR_AVAILABLE THEN "deep"
    ELSE IF p.TEXTBLOB_AVAILABLE THEN "textblob"
    ELSE "none"

\* _translate_textblob: an empty or unchanged translation gives the text back
TextBlobResult(reply, given) ==
    IF reply.kind = "raise" THEN given
    ELSE LET result == ReplyText(reply, given) IN
         IF result = <<>> \/ PyStrip(result) = PyStrip(given)
         THEN given ELSE result

\* _translate_google
GoogleResult(reply, given) ==
    IF reply.kind = "raise" THEN given ELSE ReplyText(reply, given)

\* result.get(key)
Get(d, key) == IF key \in DOMAIN d THEN d[key] ELSE None

\* a pipeline run as it starts: which entry point, the constructor's
\* translation_service and which optional libraries were importable
PipeStarts ==
    [on : {TRUE},
     kind : {"image", "pdf"},
     translation_service : {"textblob", "google"},
     GOOGLE_TRANSLATE_AVAILABLE : BOOLEAN,
     DEEP_TRANSLATOR_AVAILABLE : BOOLEAN,
     TEXTBLOB_AVAILABLE : BOOLEAN,
     LANGDETECT_AVAILABLE : BOOLEAN,
     pc : {"start"},
     self_lang : {"eng"},             \* self.lang
     self_detected_language : {None}, \* self.detected_language
     ocr_lang : {None},               \* the language the OCR ran with
     ocr : {<<>>},                    \* the text the OCR returned
     detected_lang : {None},
     detfail : {FALSE},               \* did the detection raise
     result : {Empty},                \* the result dict
     given : {<<>>},                  \* the text argument of _translate_to_english
     tchunks : {<<>>},                \* chunks of _translate_deep_translator
     tdone : {<<>>},                  \* its translated_chunks
     treplies : {<<>>},               \* what the backend came back with, per call
     ttext : {<<>>},                  \* what _translate_to_english returned
     raised : {None}]

InitPipeline ==
    /\ text = <<>> /\ lang = "fr"
    /\ chunk_size = MaxChunkSize
    /\ chunks = <<>>
    /\ pc = "pipeline"
    /\ cache = Empty /\ op = "none" /\ idx = 0
    /\ translated_chunks = <<>> /\ ctext = <<>> /\ attempt = 0 /\ creq = 0
    /\ replies = <<>> /\ cres = NoResult /\ cresults = <<>> /\ reqlog = <<>>
    /\ sleeps = <<>> /\ ret = NoResult /\ hist = Empty /\ ncalls = 0
    /\ cache0 = Empty
    /\ race = RaceIdle /\ det = DetIdle /\ pg = PgIdle /\ inst = InstIdle
    /\ pipe \in PipeStarts

PipeUnchanged ==
    /\ UNCHANGED <<text, chunk_size, chunks, pc>>
    /\ UNCHANGED svc
    /\ UNCHANGED <<race, det, pg, inst>>

\* process_image_multilingual: _detect_language_from_image
PipeDetectImage ==
    /\ pipe.on /\ pipe.kind = "image" /\ pipe.pc = "start"
    /\ \/ \* _preprocess_image raises: 'eng'
          pipe' = [pipe EXCEPT !.detected_lang = "eng", !.detfail = TRUE,
                               !.pc = "ocr"]
       \/ \E reads \in ImageReads :
             LET best_lang == BestLang(reads, 1, "eng", 0) IN
             pipe' = [pipe EXCEPT !.detected_lang = best_lang,
                                  !.self_detected_language = best_lang,
                                  !.pc = "ocr"]
    /\ PipeUnchanged

\* process_image_multilingual: _process_with_language, which sets self.lang,
\* runs process_image and puts self.lang back in its finally
PipeProcessWithLanguage ==
    /\ pipe.on /\ pipe.kind = "image" /\ pipe.pc = "ocr"
    /\ \/ \E t \in OcrTexts :
             pipe' = [pipe EXCEPT !.ocr = t,
                                  !.ocr_lang = pipe.detected_lang,
                                  !.self_lang = pipe.self_lang,
                                  !.result = Put(Empty, "extracted_text", t),
                                  !.pc = "branch"]
       \/ pipe' = [pipe EXCEPT
                       !.ocr_lang = pipe.detected_lang,
                       !.self_lang = pipe.self_lang,
                       !.raised = "Multilingual OCR processing failed: OCR processing failed",
                       !.pc = "raised"]
    /\ PipeUnchanged

\* process_pdf_multilingual: process_pdf
PipeProcessPdf ==
    /\ pipe.on /\ pipe.kind = "pdf" /\ pipe.pc = "start"
    /\ \/ \E t \in OcrTexts :
             pipe' = [pipe EXCEPT !.ocr = t,
                                  !.ocr_lang = pipe.self_lang,
                                  !.result = Put(Empty, "extracted_text", t),
                                  !.pc = "detect"]
       \/ pipe' = [pipe EXCEPT
                       !.raised = "Multilingual PDF processing failed: PDF processing failed",
                       !.pc = "raised"]
    /\ PipeUnchanged

\* process_pdf_multilingual: _detect_language_from_text
PipeDetectText ==
    /\ pipe.on /\ pipe.kind = "pdf" /\ pipe.pc = "detect"
    /\ IF pipe.LANGDETECT_AVAILABLE \/ pipe.TEXTBLOB_AVAILABLE
       THEN \E reply \in DetectReplies :
               IF reply.kind = "raise"
               THEN pipe' = [pipe EXCEPT !.detected_lang = "eng",
                                         !.detfail = TRUE, !.pc = "branch"]
               ELSE pipe' = [pipe EXCEPT !.detected_lang = lang_mapping(reply.code),
                                         !.pc = "branch"]
       ELSE pipe' = [pipe EXCEPT !.detected_lang = "eng", !.pc = "branch"]
    /\ PipeUnchanged

\* `if detected_lang != 'eng'`: keep the original and go on to translate, or
\* finish the result and return it
PipeBranch ==
    /\ pipe.on /\ pipe.pc = "branch"
    /\ IF pipe.detected_lang # "eng"
       THEN pipe' = [pipe EXCEPT
                         !.result = Put(Put(pipe.result, "original_language",
                                            LANGUAGE_CODES(pipe.detected_lang)),
                                        "original_text", pipe.result["extracted_text"]),
                         !.given = pipe.result["extracted_text"],
                         !.pc = "translate"]
       ELSE pipe' = [pipe EXCEPT
                         !.result = Put(Put(Put(pipe.result, "original_language", "English"),
                                            "translated", FALSE),
                                        "detected_language",
                                        LANGUAGE_CODES(pipe.detected_lang)),
                         !.pc = "returned"]
    /\ PipeUnchanged

\* _translate_to_english: a blank text goes back as it is; the google and
\* textblob backends translate in one call; deep_translator chunks the text
PipeTranslate ==
    /\ pipe.on /\ pipe.pc = "translate"
    /\ IF IsBlank(pipe.given) \/ Backend(pipe) = "none"
       THEN pipe' = [pipe EXCEPT !.ttext = pipe.given, !.pc = "translated"]
       ELSE IF Backend(pipe) = "google"
       THEN \E reply \in TranslatorReplies :
               pipe' = [pipe EXCEPT !.treplies = Append(@, reply),
                                    !.ttext = GoogleResult(reply, pipe.given),
                                    !.pc = "translated"]
       ELSE IF Backend(pipe) = "textblob"
       THEN \E reply \in TranslatorReplies :
               pipe' = [pipe EXCEPT !.treplies = Append(@, reply),
                                    !.ttext = TextBlobResult(reply, pipe.given),
                                    !.pc = "translated"]
       ELSE pipe' = [pipe EXCEPT
                         !.tchunks = DeepChunks(PySplit(pipe.given, <<"\n">>),
                                                <<>>, MaxChars),
                         !.tdone = <<>>,
                         !.pc = "deep"]
    /\ PipeUnchanged

\* _translate_deep_translator: one pass of the loop over the chunks; a chunk
\* whose translation raises is appended as it is
PipeDeepChunk ==
    /\ pipe.on /\ pipe.pc = "deep"
    /\ Len(pipe.tdone) < Len(pipe.tchunks)
    /\ \E reply \in TranslatorReplies :
         LET chunk == pipe.tchunks[Len(pipe.tdone) + 1] IN
         pipe' = [pipe EXCEPT
                      !.treplies = Append(@, reply),
                      !.tdone = Append(@, IF reply.kind = "raise" THEN chunk
                                          ELSE ReplyText(reply, chunk))]
    /\ PipeUnchanged

\* _translate_deep_translator: '\n'.join(translated_chunks)
PipeDeepJoin ==
    /\ pipe.on /\ pipe.pc = "deep"
    /\ Len(pipe.tdone) = Len(pipe.tchunks)
    /\ pipe' = [pipe EXCEPT !.ttext = PyJoin(<<"\n">>, pipe.tdone),
                            !.pc = "translated"]
    /\ PipeUnchanged

\* the translated text replaces extracted_text, translated is set and the
\* result is returned
PipeReturn ==
    /\ pipe.on /\ pipe.pc = "translated"
    /\ pipe' = [pipe EXCEPT
                    !.result = Put(Put(Put(pipe.result, "extracted_text", pipe.ttext),
                                       "translated", TRUE),
                                   "detected_language",
                                   LANGUAGE_CODES(pipe.detected_lang)),
                    !.pc = "returned"]
    /\ PipeUnchanged

NextPipeline ==
    \/ PipeDetectImage
    \/ PipeProcessWithLanguage
    \/ PipeProcessPdf
    \/ PipeDetectText
    \/ PipeBranch
    \/ PipeTranslate
    \/ PipeDeepChunk
    \/ PipeDeepJoin
    \/ PipeReturn

SpecPipeline == InitPipeline /\ [][NextPipeline]_vars

\* ------------------------------------------------------ language detection
\* LANGUAGE_NAMES.get(language_code, language_code)
LANGUAGE_NAMES(language_code) ==
    CASE language_code = "en" -> "English"
      [] language_code = "fr" -> "French"
      [] language_code = "de" -> "German"
      [] OTHER -> language_code

\* the texts handed to detect_language
DetTexts ==
    { <<>>, <<" ">>, <<"\n", " ">>, <<"a">>, <<" ", "a">>, <<"1">> }

\* what langdetect.detect_langs comes back with: a list of candidates, the
\* most probable first (prob in hundredths), or an exception
DetectLangsReplies ==
    {[kind |-> "langs", langs |-> l] :
        l \in { <<>>,
                <<[lang |-> "fr", prob |-> 99]>>,
                <<[lang |-> "en", prob |-> 57], [lang |-> "fr", prob |-> 42]>>,
                <<[lang |-> "xx", prob |-> 100]>> }}
        \cup {[kind |-> k, langs |-> <<>>] : k \in {"LangDetectException", "Exception"}}

DetectionResult(success, language_code, language_name, confidence, error) ==
    [success |-> success, language_code |-> language_code,
     language_name |-> language_name, confidence |-> confidence, error |-> error]

\* mutant: a failure that carries no error
DetectionFailureNoError(error) == DetectionResult(FALSE, None, None, 0, None)

DetectionFailure(error) == DetectionResult(FALSE, None, None, 0, error)

\* a page that is not a string (and not falsy): its .strip() raises
NotStr == <<"<int>">>

\* the page lists handed to detect_language_from_pages
DetPages ==
    { <<>>,
      << <<>> >>,
      << <<" ">>, <<>>, <<"\n">> >>,
      << <<"a">> >>,
      << <<" ">>, <<"a">> >>,
      << <<"a">>, <<" ">>, <<"b">> >>,
      << <<"a">>, <<"b">> >>,
      << <<"a">>, NotStr >>,
      << NotStr >> }

\* mutant: every page is kept
NonBlankPagesAll(texts) == texts

\* [t for t in texts if t and t.strip() != '']
NonBlankPages(texts) == SelectSeq(texts, LAMBDA t : ~(t = <<>> \/ IsBlank(t)))

\* ' '.join of the pages kept
CombinedText(texts) == PyJoin(<<" ">>, NonBlankPages(texts))

\* mutant: the text is not stripped before the check
DetEmptyNoStrip(s) == s = <<>>

\* `if not text or text.strip() == ''`
DetEmpty(s) == s = <<>> \/ IsBlank(s)

\* detect_language after the blank check, given what detect_langs did
DetectWith(reply) ==
    IF reply.kind = "LangDetectException"
    THEN DetectionFailure("Language detection failed: No features in text.")
    ELSE IF reply.kind = "Exception"
    THEN DetectionFailure("Language detection error: error")
    ELSE IF reply.langs = <<>>
    THEN DetectionFailure("Could not detect language")
    ELSE LET best_match == reply.langs[1] IN
         DetectionResult(TRUE, best_match.lang, LANGUAGE_NAMES(best_match.lang),
                         best_match.prob, None)

DetStart ==
    [on |-> TRUE, pc |-> "idle", text |-> <<>>, ncalls |-> 0,
     op |-> "none",     \* the method the client called
     texts |-> <<>>,    \* the texts argument of detect_language_from_pages
     given |-> <<>>,    \* what detect_langs was last called with
     reply |-> [kind |-> "none", langs |-> <<>>],   \* and what it came back with
     invoked |-> 0,     \* detect_langs calls of the running call
     total |-> 0,       \* detect_langs calls so far
     result |-> DetectionFailure("no result")]

InitDetect ==
    /\ text = <<>> /\ lang = "fr"
    /\ chunk_size = MaxChunkSize
    /\ chunks = <<>>
    /\ pc = "detect"
    /\ cache = Empty /\ op = "none" /\ idx = 0
    /\ translated_chunks = <<>> /\ ctext = <<>> /\ attempt = 0 /\ creq = 0
    /\ replies = <<>> /\ cres = NoResult /\ cresults = <<>> /\ reqlog = <<>>
    /\ sleeps = <<>> /\ ret = NoResult /\ hist = Empty /\ ncalls = 0
    /\ cache0 = Empty
    /\ race = RaceIdle /\ pipe = PipeIdle /\ pg = PgIdle /\ inst = InstIdle
    /\ det = DetStart

DetUnchanged ==
    /\ UNCHANGED <<text, chunk_size, chunks, pc>>
    /\ UNCHANGED svc
    /\ UNCHANGED <<race, pipe, pg, inst>>

\* the client calls LanguageDetectionService.detect_language(t)
DetCall ==
    /\ det.on /\ det.pc = "idle"
    /\ det.ncalls < MaxCalls
    /\ \E t \in DetTexts :
         det' = [det EXCEPT !.text = t, !.ncalls = @ + 1, !.invoked = 0,
                            !.op = "single", !.texts = <<>>,
                            !.result = DetectionFailure("no result"),
                            !.pc = "called"]
    /\ DetUnchanged

\* the client calls LanguageDetectionService.detect_language_from_pages(p)
DetCallPages ==
    /\ det.on /\ det.pc = "idle"
    /\ det.ncalls < MaxCalls
    /\ \E p \in DetPages :
         det' = [det EXCEPT !.texts = p, !.ncalls = @ + 1, !.invoked = 0,
                            !.op = "pages", !.text = <<>>,
                            !.result = DetectionFailure("no result"),
                            !.pc = "called_pages"]
    /\ DetUnchanged

\* detect_language: the blank check, detect_langs, the result
DetectLanguage ==
    /\ det.on /\ det.pc = "called"
    /\ IF DetEmpty(det.text)
       THEN det' = [det EXCEPT !.result = DetectionFailure("Empty text provided"),
                               !.pc = "returned"]
       ELSE \E reply \in DetectLangsReplies :
               det' = [det EXCEPT !.invoked = @ + 1, !.total = @ + 1,
                                  !.given = det.text, !.reply = reply,
                                  !.result = DetectWith(reply),
                                  !.pc = "returned"]
    /\ DetUnchanged

\* detect_language_from_pages: no page or only blank pages fail at once; a
\* page whose .strip() raises ends in the except; otherwise the pages kept are
\* joined and handed to detect_language
DetectLanguageFromPages ==
    /\ det.on /\ det.pc = "called_pages"
    /\ IF det.texts = <<>>
       THEN det' = [det EXCEPT !.result = DetectionFailure("No text provided"),
                               !.pc = "returned"]
       ELSE IF \E i \in 1..Len(det.texts) : det.texts[i] = NotStr
       THEN det' = [det EXCEPT
                        !.result = DetectionFailure(
                            "Multi-page language detection failed: no attribute strip"),
                        !.pc = "returned"]
       ELSE IF \A i \in 1..Len(det.texts) : det.texts[i] = <<>> \/ IsBlank(det.texts[i])
       THEN det' = [det EXCEPT !.result = DetectionFailure("No text provided"),
                               !.pc = "returned"]
       ELSE LET combined_text == CombinedText(det.texts) IN
            IF combined_text = <<>> \/ IsBlank(combined_text)
            THEN det' = [det EXCEPT
                             !.result = DetectionFailure("No valid text to detect"),
                             !.pc = "returned"]
            ELSE IF DetEmpty(combined_text)
            THEN det' = [det EXCEPT
                             !.result = DetectionFailure("Empty text provided"),
                             !.pc = "returned"]
            ELSE \E reply \in DetectLangsReplies :
                    det' = [det EXCEPT !.invoked = @ + 1, !.total = @ + 1,
                                       !.given = combined_text, !.reply = reply,
                                       !.result = DetectWith(reply),
                                       !.pc = "returned"]
    /\ DetUnchanged

\* the client has the result and may call again
DetFinish ==
    /\ det.on /\ det.pc = "returned"
    /\ det' = [det EXCEPT !.pc = "idle"]
    /\ DetUnchanged

NextDetect ==
    \/ DetCall
    \/ DetCallPages
    \/ DetectLanguage
    \/ DetectLanguageFromPages
    \/ DetFinish

SpecDetect == InitDetect /\ [][NextDetect]_vars

\* ----------------------------------------------------------- translate_pages
\* the page lists handed to translate_pages
PageLists ==
    { <<>>,
      << <<"a", "a", "a">> >>,
      << <<" ">>, <<"a", "a", "a">> >>,
      << <<"a", "a", "a">>, <<>>, <<"b">> >>,
      << <<"a", "\n", "\n", "b">>, <<"b">> >>,
      << <<"b">>, <<"b">> >> }

PagesResult(success, translated_texts, error) ==
    [success |-> success, translated_texts |-> translated_texts, error |-> error]

PgStart ==
    [on |-> TRUE, texts |-> <<>>,
     i |-> 0,                   \* position of the for loop, from 1
     translated_texts |-> <<>>,
     called |-> <<>>,           \* the text of every translate_to_english call
     results |-> <<>>,          \* and the result of each
     ret |-> PagesResult(FALSE, <<>>, "no result")]

InitPages ==
    /\ text = <<>>
    /\ lang \in {"fr", "EN"}
    /\ chunk_size = MaxChunkSize
    /\ chunks = <<>>
    /\ pc = "pages_idle"
    /\ cache = Empty /\ op = "none" /\ idx = 0
    /\ translated_chunks = <<>> /\ ctext = <<>> /\ attempt = 0 /\ creq = 0
    /\ replies = <<>> /\ cres = NoResult /\ cresults = <<>> /\ reqlog = <<>>
    /\ sleeps = <<>> /\ ret = NoResult /\ hist = Empty /\ ncalls = 0
    /\ cache0 = Empty
    /\ race = RaceIdle /\ pipe = PipeIdle /\ det = DetIdle
    /\ pg = PgStart /\ inst = InstIdle

\* mutant: a page that failed is left out
AppendPageSkipFailed(tt, result) ==
    IF result.success THEN Append(tt, result.translated_text) ELSE tt

\* translated_texts.append(result['translated_text']) if result['success'],
\* else translated_texts.append('')
AppendPage(tt, result) ==
    Append(tt, IF result.success THEN result.translated_text ELSE <<>>)

\* the client calls TranslationService.translate_pages(texts, lang)
TranslatePagesCall ==
    /\ pg.on /\ pc = "pages_idle"
    /\ \E texts \in PageLists : pg' = [pg EXCEPT !.texts = texts, !.i = 1]
    /\ pc' = "pages_loop"
    /\ UNCHANGED <<text, chunk_size, chunks>>
    /\ UNCHANGED svc
    /\ UNCHANGED <<race, pipe, det, inst>>

\* the head of the for loop: translate_to_english is called for the next
\* page, or the loop is over and the list is returned
TranslatePagesLoop ==
    /\ pg.on /\ pc = "pages_loop"
    /\ IF pg.i <= Len(pg.texts)
       THEN /\ text' = pg.texts[pg.i]
            /\ pg' = [pg EXCEPT !.called = Append(@, pg.texts[pg.i])]
            /\ ncalls' = ncalls + 1
            /\ op' = "doc"
            /\ pc' = "te_start"
            /\ chunks' = <<>> /\ idx' = 0 /\ translated_chunks' = <<>>
            /\ cresults' = <<>> /\ creq' = 0 /\ replies' = <<>> /\ reqlog' = <<>>
            /\ sleeps' = <<>> /\ attempt' = 0 /\ cres' = NoResult
            /\ ret' = NoResult /\ ctext' = <<>>
            /\ cache0' = cache
       ELSE /\ pg' = [pg EXCEPT !.ret = PagesResult(TRUE, pg.translated_texts, None)]
            /\ pc' = "pages_done"
            /\ UNCHANGED <<text, chunks, op, idx, translated_chunks, ctext, attempt,
                           creq, replies, cres, cresults, reqlog, sleeps, ret,
                           ncalls, cache0>>
    /\ UNCHANGED <<chunk_size, lang, cache, hist>>
    /\ UNCHANGED <<race, pipe, det, inst>>

\* translate_to_english has returned: the page's text or '' is appended
TranslatePagesCollect ==
    /\ pg.on /\ pc = "done"
    /\ pg' = [pg EXCEPT !.results = Append(@, ret),
                        !.translated_texts = AppendPage(@, ret),
                        !.i = @ + 1]
    /\ pc' = "pages_loop"
    /\ UNCHANGED <<text, chunk_size, chunks>>
    /\ UNCHANGED svc
    /\ UNCHANGED <<race, pipe, det, inst>>

NextPages ==
    \/ TranslatePagesCall
    \/ TranslatePagesLoop
    \/ TranslateToEnglishStart
    \/ TranslateToEnglishLoop
    \/ TranslateChunkStart
    \/ TranslateChunkRequest
    \/ TranslateChunkReturn
    \/ TranslatePagesCollect

SpecPages == InitPages /\ [][NextPages]_vars

\* ------------------------ _process_with_language on the shared instance
\* the config string of a language
Config(l) == "--oem 3 --psm 6 -l " \o l

\* the languages a call selects
OcrLangs == {"fra", "deu"}

InstStart ==
    [on |-> TRUE,
     lang |-> "eng",            \* self.lang
     config |-> Config("eng"),  \* self.config
     pc |-> [t \in Threads |-> "idle"],
     arg |-> [t \in Threads |-> "none"],            \* the call's lang
     original_lang |-> [t \in Threads |-> "none"],  \* the call's local
     ran |-> [t \in Threads |-> "none"],    \* the config its OCR was given
     raised |-> [t \in Threads |-> FALSE],
     overlapped |-> [t \in Threads |-> FALSE],  \* ran beside another call
     calls |-> 0]

InitLang ==
    /\ text = <<>>
    /\ lang = "en"
    /\ chunk_size = MaxChunkSize
    /\ chunks = <<>>
    /\ pc = "lang"
    /\ cache = Empty /\ op = "none" /\ idx = 0
    /\ translated_chunks = <<>> /\ ctext = <<>> /\ attempt = 0 /\ creq = 0
    /\ replies = <<>> /\ cres = NoResult /\ cresults = <<>> /\ reqlog = <<>>
    /\ sleeps = <<>> /\ ret = NoResult /\ hist = Empty /\ ncalls = 0
    /\ cache0 = Empty
    /\ race = RaceIdle /\ pipe = PipeIdle /\ det = DetIdle /\ pg = PgIdle
    /\ inst = InstStart

LangUnchanged ==
    /\ UNCHANGED <<text, chunk_size, chunks, pc>>
    /\ UNCHANGED svc
    /\ UNCHANGED <<race, pipe, det, pg>>

InsideCall(t) == inst.pc[t] \notin {"idle", "done"}

\* a request thread enters _process_with_language(image_path, lang)
ProcessWithLanguageCall(t) ==
    /\ inst.on /\ ~InsideCall(t)
    /\ inst.calls < MaxCalls
    /\ \E l \in OcrLangs :
         inst' = [inst EXCEPT !.pc[t] = "save", !.arg[t] = l,
                              !.original_lang[t] = "none", !.ran[t] = "none",
                              !.raised[t] = FALSE,
                              !.overlapped =
                                  [u \in Threads |->
                                     IF \E v \in Threads \ {t} : InsideCall(v)
                                     THEN u = t \/ InsideCall(u) \/ @[u]
                                     ELSE u # t /\ @[u]],
                              !.calls = @ + 1]
    /\ LangUnchanged

\* original_lang = self.lang
ProcessWithLanguageSave(t) ==
    /\ inst.on /\ inst.pc[t] = "save"
    /\ inst' = [inst EXCEPT !.original_lang[t] = inst.lang,
                            !.pc[t] = "set_lang"]
    /\ LangUnchanged

\* self.lang = lang
ProcessWithLanguageSetLang(t) ==
    /\ inst.on /\ inst.pc[t] = "set_lang"
    /\ inst' = [inst EXCEPT !.lang = inst.arg[t], !.pc[t] = "set_config"]
    /\ LangUnchanged

\* self.config = f'--oem 3 --psm 6 -l {lang}'
ProcessWithLanguageSetConfig(t) ==
    /\ inst.on /\ inst.pc[t] = "set_config"
    /\ inst' = [inst EXCEPT !.config = Config(inst.arg[t]), !.pc[t] = "ocr"]
    /\ LangUnchanged

\* self.process_image(image_path): pytesseract is given self.config as it is
\* at that moment, and the call returns its result or raises
ProcessImage(t) ==
    /\ inst.on /\ inst.pc[t] = "ocr"
    /\ \E raises \in BOOLEAN :
         inst' = [inst EXCEPT !.ran[t] = inst.config, !.raised[t] = raises,
                              !.pc[t] = "restore_lang"]
    /\ LangUnchanged

\* finally: self.lang = original_lang
ProcessWithLanguageRestoreLang(t) ==
    /\ inst.on /\ inst.pc[t] = "restore_lang"
    /\ inst' = [inst EXCEPT !.lang = inst.original_lang[t],
                            !.pc[t] = "restore_config"]
    /\ LangUnchanged

\* finally: self.config = f'--oem 3 --psm 6 -l {original_lang}'
ProcessWithLanguageRestoreConfig(t) ==
    /\ inst.on /\ inst.pc[t] = "restore_config"
    /\ inst' = [inst EXCEPT !.config = Config(inst.original_lang[t]),
                            !.pc[t] = "done"]
    /\ LangUnchanged

NextLang ==
    \E t \in Threads :
        \/ ProcessWithLanguageCall(t)
        \/ ProcessWithLanguageSave(t)
        \/ ProcessWithLanguageSetLang(t)
        \/ ProcessWithLanguageSetConfig(t)
        \/ ProcessImage(t)
        \/ ProcessWithLanguageRestoreLang(t)
        \/ ProcessWithLanguageRestoreConfig(t)

SpecLang == InitLang /\ [][NextLang]_vars

\* ------------------------------------------------------------------ claims
\* every non-empty separator of the list
RealSeparators == {Separators[i] : i \in 1..(Len(Separators) - 1)}

NoSeparatorIn(s) == \A sep \in RealSeparators : ~Contains(s, sep)

NonWhitespace(s) == SelectSeq(s, LAMBDA c : c \notin Whitespace)

Chunked == pc = "chunked"

\* C1: every chunk _smart_chunk_text returns is no longer than the chunk size,
\* unless the chunk contains no occurrence of any separator
C1_ChunkWithinLimit ==
    Chunked =>
        \A i \in 1..Len(chunks) :
            Len(chunks[i]) <= chunk_size \/ NoSeparatorIn(chunks[i])

\* C2: for a non-blank text the chunks, concatenated in order, hold every
\* non-whitespace character of the text exactly once and in the text's order
C2_ContentPreserved ==
    (Chunked /\ ~IsBlank(text)) =>
        NonWhitespace(PyJoin(<<>>, chunks)) = NonWhitespace(text)

\* C3: _smart_chunk_text returns no chunk exactly when the text is empty or
\* whitespace-only
C3_EmptyIffBlank == Chunked => ((chunks = <<>>) <=> IsBlank(text))

Returned == pc = "tc_done"

ThisKey == CacheKey(ctext, Lower(lang))

CalledBefore == ThisKey \in DOMAIN hist

IsFallback(r) == r.success /\ r.error # None

FailKinds == {"429", "connection", "http", "status", "empty"}

C6_GracefulFallback ==
    (Returned /\ creq > 0 /\ replies[Len(replies)].kind \in FailKinds) =>
        /\ cres.success
        /\ cres.translated_text = ctext
        /\ cres.error = FallbackPrefix \o LastError(replies[Len(replies)])

C6_Witness ==
    /\ Returned
    /\ Len(replies) = MAX_RETRIES
    /\ \A i \in 1..Len(replies) : replies[i].kind = "429"
    /\ cres.translated_text = ctext

\* C7: a fallback result is in the cache under the chunk's key when the call
\* returns it, and a later call for the same text and language returns that
\* fallback from the cache without a remote request
C7_FallbackCached ==
    /\ (Returned /\ creq > 0 /\ IsFallback(cres)) =>
           (CacheHit(cache, ThisKey) /\ cache[ThisKey] = cres)
    /\ (Returned /\ CalledBefore /\ IsFallback(hist[ThisKey])) =>
           /\ cres = hist[ThisKey]
           /\ creq = 0
           /\ CacheHit(cache, ThisKey) /\ cache[ThisKey] = cres

C7_Witness ==
    /\ Returned
    /\ CalledBefore
    /\ IsFallback(hist[ThisKey])
    /\ cres = hist[ThisKey]
    /\ creq = 0

\* --- translate_to_english has returned
DocReturned == pc = "done" /\ op = "doc"

FailedChunks == {i \in 1..Len(cresults) : ~cresults[i].success}

FallbackChunks == {i \in 1..Len(cresults) : IsFallback(cresults[i])}

Min(S) == CHOOSE i \in S : \A j \in S : i <= j

\* C8: when a chunk's translation returns success=false, translate_to_english
\* returns that chunk's result (success=false, its error, empty text), has
\* translated no later chunk and has issued no request for a later chunk
C8_AbortOnFailedChunk ==
    (DocReturned /\ FailedChunks # {}) =>
        LET f == Min(FailedChunks) IN
        /\ ret = cresults[f]
        /\ ~ret.success
        /\ ret.translated_text = <<>>
        /\ Len(cresults) = f
        /\ \A j \in 1..Len(reqlog) : reqlog[j] <= f

C8_Witness ==
    /\ DocReturned
    /\ Len(chunks) = 2
    /\ FailedChunks = {2}
    /\ cresults[1].translated_text # <<>>
    /\ ret.translated_text = <<>>

\* C9: when every chunk succeeded and some chunk used the fallback, the result
\* of the document reports the first such chunk's error and success=true
C9_FallbackReasonSurfaced ==
    (DocReturned /\ FailedChunks = {} /\ FallbackChunks # {}) =>
        /\ ret.success
        /\ ret.error = cresults[Min(FallbackChunks)].error

RateLimited(r) == r = fallback_result(r.translated_text, LastError([kind |-> "429"]))

AllRateLimited ==
    /\ DocReturned
    /\ cresults # <<>>
    /\ Len(cresults) = Len(chunks)
    /\ \A i \in 1..Len(cresults) : RateLimited(cresults[i])

\* C10 as claimed: when every chunk fell back on HTTP 429, the final text is
\* the original text
C10_FinalIsOriginal == AllRateLimited => ret.translated_text = text

\* C10 amended: when every chunk fell back on HTTP 429, the final text is the
\* chunks of the original text joined by single spaces, each run of whitespace
\* collapsed to one space
C10_FinalIsJoinedChunks ==
    AllRateLimited =>
        /\ ret.success
        /\ ret.translated_text = PyJoin(<<" ">>, PySplitWs(PyJoin(<<" ">>, chunks), <<>>))

C10_Witness ==
    /\ AllRateLimited
    /\ Len(chunks) = 2
    /\ ret.translated_text # text

\* C11: for a non-blank text and a source language that is 'en' whatever its
\* case, translate_to_english returns success=true, the text as given and error
\* None, makes no chunk, issues no request and leaves the cache as it was
C11_EnglishPassthrough ==
    (DocReturned /\ ~IsBlank(text) /\ lang \in {"en", "EN"}) =>
        /\ ret = Result(TRUE, text, None)
        /\ chunks = <<>> /\ cresults = <<>>
        /\ reqlog = <<>>
        /\ cache = cache0

C11_Witness ==
    /\ DocReturned
    /\ lang = "EN"
    /\ \E i \in 1..(Len(text) - 1) : text[i] = "\n" /\ text[i + 1] = "\n"
    /\ ret.translated_text = text
    /\ cache # Empty

\* C12: for an empty or whitespace-only text and any source language,
\* translate_to_english returns success=false, a non-empty error and the empty
\* text, issues no request and leaves the cache as it was
C12_BlankRejected ==
    (DocReturned /\ NonWhitespace(text) = <<>>) =>
        /\ ~ret.success
        /\ ret.error \notin {None, ""}
        /\ ret.translated_text = <<>>
        /\ chunks = <<>> /\ cresults = <<>>
        /\ reqlog = <<>>
        /\ cache = cache0

C12_Witness ==
    /\ DocReturned
    /\ text # <<>> /\ NonWhitespace(text) = <<>>
    /\ lang = "en"
    /\ ~ret.success

\* C13: a result with success=false has the empty text and an error, and it
\* comes from a blank document or an internal exception, never from what the
\* remote endpoint answered
C13_FailureNeverRemote ==
    /\ (Returned /\ ~cres.success) =>
           (cres.translated_text = <<>> /\ cres.error # None /\ replies = <<>>)
    /\ (pc = "done" /\ ~ret.success) =>
           (ret.translated_text = <<>> /\ ret.error # None /\ reqlog = <<>>)

\* C14: for a non-blank text, a result of translate_to_english with
\* success=true has a non-empty translated_text and error None
C14_SuccessHasText ==
    (DocReturned /\ ~IsBlank(text) /\ ret.success) =>
        (ret.translated_text # <<>> /\ ret.error = None)

\* C15: a key that is in the cache stays in it with the value it has
C15_CacheOnlyGrows ==
    [][\A k \in DOMAIN cache : k \in DOMAIN cache' /\ cache'[k] = cache[k]]_vars

C15_Witness ==
    /\ pc = "done"
    /\ DOMAIN cache0 # {}
    /\ DOMAIN cache # DOMAIN cache0
    /\ \A k \in DOMAIN cache0 : k \in DOMAIN cache /\ cache[k] = cache0[k]

\* C16: when both threads missed the cache and both wrote, the results they
\* wrote under the key have the same translated_text and the same error
C16_WritersAgree ==
    race.on =>
        \A t \in Threads : \A u \in Threads :
            (/\ race.missed[t] /\ race.missed[u]
             /\ race.wrote[t] # <<>> /\ race.wrote[u] # <<>>) =>
                /\ race.wrote[t][1].translated_text = race.wrote[u][1].translated_text
                /\ race.wrote[t][1].error = race.wrote[u][1].error

PipeReturned == pipe.on /\ pipe.pc = "returned"

Translated(v) == "translated" \in DOMAIN pipe.result /\ pipe.result["translated"] = v

\* C17: when language detection failed, the pipeline returns detected language
\* 'Unknown', translated=false, a detection error and the extracted text
\* unchanged, and has not called a translator
C17_DetectionFailureReported ==
    (PipeReturned /\ pipe.detfail) =>
        /\ Get(pipe.result, "detected_language") = "Unknown"
        /\ Translated(FALSE)
        /\ Get(pipe.result, "detection_error") \notin {None, ""}
        /\ pipe.result["extracted_text"] = pipe.ocr
        /\ pipe.treplies = <<>>

TranslationFailed == \E i \in 1..Len(pipe.treplies) : pipe.treplies[i].kind = "raise"

\* C18: when a translator call failed, the pipeline raises nothing and returns
\* translated=false, a translation error and the extracted text as the result
\* text, never a text of which only some chunks are translated
C18_TranslationFailureReported ==
    (pipe.on /\ pipe.pc \in {"returned", "raised"} /\ TranslationFailed) =>
        /\ pipe.pc = "returned"
        /\ Translated(FALSE)
        /\ Get(pipe.result, "translation_error") \notin {None, ""}
        /\ pipe.result["extracted_text"] = pipe.ocr
        /\ ~ \E i \in 1..Len(pipe.treplies) : pipe.treplies[i].kind = "ok"

\* C19: translated=true implies that the detected language is not English and
\* that the result text is original_text except for what a translator made of
\* it (so it is original_text when every translator call failed or gave its
\* input back); translated=false implies that the result text is the OCR text
C19_TranslatedInvariant ==
    PipeReturned =>
        /\ Translated(TRUE) =>
              /\ pipe.detected_lang # "eng"
              /\ Get(pipe.result, "detected_language") # "English"
              /\ (\A i \in 1..Len(pipe.treplies) :
                      pipe.treplies[i].kind \in {"raise", "echo"}) =>
                     pipe.result["extracted_text"] = pipe.result["original_text"]
        /\ Translated(FALSE) => pipe.result["extracted_text"] = pipe.ocr

\* C20: detect_language on an empty or whitespace-only text returns
\* success=false, language_code None, language_name None, confidence 0.0 and a
\* non-empty error, and has not invoked detect_langs
C20_BlankNotDetected ==
    (det.on /\ det.pc = "returned" /\ det.op = "single"
        /\ NonWhitespace(det.text) = <<>>) =>
        /\ ~det.result.success
        /\ det.result.language_code = None
        /\ det.result.language_name = None
        /\ det.result.confidence = 0
        /\ det.result.error \notin {None, ""}
        /\ det.invoked = 0

C20_Witness ==
    /\ det.on /\ det.pc = "returned" /\ det.op = "single"
    /\ det.text = <<"\n", " ">>
    /\ det.total > 0
    /\ det.invoked = 0
    /\ det.result.error = "Empty text provided"

DetReturned == det.on /\ det.pc = "returned"

\* C21: every result of detect_language and detect_language_from_pages has,
\* with success=false, language_code and language_name None, confidence 0.0
\* and an error, and with success=true, a language_code, a language_name and
\* error None
C21_ResultShape ==
    DetReturned =>
        IF det.result.success
        THEN /\ det.result.language_code # None
             /\ det.result.language_name # None
             /\ det.result.error = None
        ELSE /\ det.result.language_code = None
             /\ det.result.language_name = None
             /\ det.result.confidence = 0
             /\ det.result.error # None

C21_Witness ==
    /\ DetReturned /\ det.op = "pages"
    /\ det.reply.kind = "langs" /\ det.reply.langs = <<>>
    /\ det.invoked = 1
    /\ ~det.result.success

\* the pages with a non-whitespace character
PagesWithText(ps) == SelectSeq(ps, LAMBDA t : NonWhitespace(t) # <<>>)

\* C22: when every page is a string, detect_language_from_pages returns what
\* detect_language makes of detect_langs' answer to the non-blank pages joined
\* by single spaces, having called detect_langs once with that text; with no
\* page or only blank pages it returns a failure and has not called detect_langs
C22_PagesDelegate ==
    (DetReturned /\ det.op = "pages"
        /\ \A i \in 1..Len(det.texts) : det.texts[i] # NotStr) =>
        IF PagesWithText(det.texts) = <<>>
        THEN /\ ~det.result.success
             /\ det.result.error # None
             /\ det.invoked = 0
        ELSE /\ det.invoked = 1
             /\ det.given = PyJoin(<<" ">>, PagesWithText(det.texts))
             /\ det.result = DetectWith(det.reply)

C22_Witness ==
    /\ DetReturned /\ det.op = "pages"
    /\ det.texts = << <<"a">>, <<" ">>, <<"b">> >>
    /\ det.given = <<"a", " ", "b">>
    /\ det.result.success

PagesReturned == pg.on /\ pc = "pages_done"

\* C23: translate_pages returns success=true and one text per page, in the
\* order of the pages: translate_to_english was called once for every page in
\* turn, a page whose call returned success=false gives the empty text at its
\* position, and the pages after it were translated all the same
C23_PagesKeepOrder ==
    PagesReturned =>
        /\ pg.ret.success /\ pg.ret.error = None
        /\ Len(pg.ret.translated_texts) = Len(pg.texts)
        /\ pg.called = pg.texts
        /\ Len(pg.results) = Len(pg.texts)
        /\ \A i \in 1..Len(pg.texts) :
               pg.ret.translated_texts[i] =
                   IF pg.results[i].success THEN pg.results[i].translated_text
                   ELSE <<>>

C23_Witness ==
    /\ PagesReturned
    /\ Len(pg.texts) = 3
    /\ ~pg.results[2].success
    /\ pg.ret.translated_texts[2] = <<>>
    /\ pg.ret.translated_texts[3] = <<"x">>

RetryKinds == {"429", "connection"}

\* the requests, replies and sleeps of a _translate_chunk call so far
RetryInv ==
    /\ creq = Len(replies)
    /\ creq <= MAX_RETRIES
    /\ \A i \in 1..(Len(replies) - 1) : replies[i].kind \in RetryKinds
    /\ pc = "tc_request" => \A i \in 1..Len(replies) : replies[i].kind \in RetryKinds
    /\ Len(sleeps) = IF pc = "tc_request" THEN Len(replies)
                     ELSE IF replies = <<>> THEN 0 ELSE Len(replies) - 1
    /\ Len(sleeps) <= MAX_RETRIES - 1
    /\ \A k \in 1..Len(sleeps) : sleeps[k] = RETRY_DELAY * 2^(k - 1)

\* C24: a _translate_chunk call issues a further request only after a 429 or
\* a timeout/connection error, at most MAX_RETRIES requests in all, sleeps
\* RETRY_DELAY * 2^k before retry number k and not after its last attempt, and
\* once started it returns
C24_BoundedRetries ==
    /\ []RetryInv
    /\ (pc = "tc_start") ~> (pc = "tc_done")

C24_Witness ==
    /\ Returned
    /\ creq = MAX_RETRIES
    /\ \A i \in 1..Len(replies) : replies[i].kind = "429"
    /\ sleeps = <<RETRY_DELAY>>
    /\ IsFallback(cres)

TerminalKinds == {"http", "status", "empty"}

\* C25: a reply that is another HTTP status, a responseStatus other than 200
\* or an empty translatedText is the last of its call, on whichever attempt it
\* came: the call is out of the retry loop and has not slept after it
C25_TerminalReply ==
    \A i \in 1..Len(replies) :
        replies[i].kind \in TerminalKinds =>
            /\ i = Len(replies)
            /\ creq = i
            /\ pc # "tc_request"
            /\ Len(sleeps) = i - 1

C25_Witness ==
    /\ Returned
    /\ Len(replies) = MAX_RETRIES
    /\ replies[1].kind = "connection"
    /\ replies[MAX_RETRIES].kind = "status"
    /\ Len(sleeps) = MAX_RETRIES - 1

\* the translated texts of the chunk results so far
RECURSIVE ResultTexts(_)
ResultTexts(rs) ==
    IF rs = <<>> THEN <<>> ELSE <<Head(rs).translated_text>> \o ResultTexts(Tail(rs))

\* C26: translate_to_english requests the chunks in their order, chunk i + 1
\* only when the results of chunks 1..i are there, and on success returns the
\* words of the chunk results, in that order, joined by single spaces
C26_SequentialInOrder ==
    (op = "doc" /\ lang \notin {"en", "EN"}) =>
        /\ \A j \in 1..Len(reqlog) :
               /\ reqlog[j] \in 1..Len(chunks)
               /\ reqlog[j] <= Len(cresults) + 1
               /\ j > 1 => reqlog[j - 1] <= reqlog[j]
        /\ Len(cresults) <= Len(chunks)
        /\ (pc = "done" /\ ret.success) =>
               /\ Len(cresults) = Len(chunks)
               /\ ret.translated_text =
                      PyJoin(<<" ">>,
                             PySplitWs(PyJoin(<<" ">>, ResultTexts(cresults)), <<>>))

C26_Witness ==
    /\ DocReturned /\ ret.success /\ lang = "fr"
    /\ Len(chunks) = 2
    /\ reqlog = <<1, 1, 2>>
    /\ cresults[1].translated_text = <<"y", " ", " ", "z">>
    /\ ret.translated_text = <<"y", " ", "z", " ", "x">>

\* the invocations of _recursive_split behind the chunks of the text
CallsOfText ==
    IF NonWhitespace(text) = <<>> THEN {}
    ELSE SplitCalls(text, Separators, chunk_size, 1, <<"none">>)

C28_FailureNotCached ==
    /\ \A k \in DOMAIN cache : cache[k].success
    /\ (Returned /\ CalledBefore /\ ~hist[ThisKey].success) => creq >= 1

C28_Witness ==
    /\ Returned
    /\ CalledBefore
    /\ ~hist[ThisKey].success
    /\ creq = 1
    /\ cres.success /\ cres.error = None
    /\ cache # Empty

\* C29: every chunk _smart_chunk_text returns holds a character that is not
\* whitespace
C29_ChunksNotBlank ==
    Chunked => \A i \in 1..Len(chunks) : NonWhitespace(chunks[i]) # <<>>

C29_Witness ==
    /\ Chunked
    /\ text = <<"a", "b", "\n", " ">>
    /\ chunk_size = 2
    /\ chunks = << <<"a", "b">> >>

\* every call of _process_with_language has finished, and one was made
AllFinished ==
    /\ inst.on
    /\ \A t \in Threads : ~InsideCall(t)
    /\ \E t \in Threads : inst.pc[t] = "done"

\* C30: after every call of _process_with_language has finished, returned or
\* raised, overlapping or not, the shared instance's lang is 'eng' and its
\* config '--oem 3 --psm 6 -l eng' again, and each call's OCR ran with the
\* language that call selected
C30_LanguageRestored ==
    AllFinished =>
        /\ inst.lang = "eng"
        /\ inst.config = Config("eng")
        /\ \A t \in Threads :
             inst.pc[t] = "done" => inst.ran[t] = Config(inst.arg[t])

====
